---- MODULE Spec2Model ----
(***************************************************************************)
(* Conway's Game of Life terminal viewer (src/src/main.rs): the grid, the  *)
(* toroidal update rule, the cursor and input mapping, pattern stamping    *)
(* and the fixed-timestep accumulator loop of State::run.                  *)
(*                                                                         *)
(* Durations are in milliseconds.  A Rust panic (division by zero, index   *)
(* out of bounds, arithmetic overflow, empty random range) is modelled by  *)
(* status = "panicked"; the state is left as it was when the panic hit.    *)
(***************************************************************************)
EXTENDS Integers, Sequences, FiniteSets, TLC

\* ------------------------------------------------------------- bounds
\* Largest terminal height and width (startup size and resize events) of the
\* whole-program specification Spec.
MaxRows == 1
MaxCols == 1
\* Frame deltas are 50 ms, 100 ms, ..., MaxDelta * 50 ms.
MaxDelta == 5
\* Largest number of unread input events waiting in the terminal's queue.
MaxQueue == 2
\* Largest grid of SpecUpdate (one simulation step on every grid).
StepRows == 3
StepCols == 3
\* Largest grid, before and after, of SpecResize (one resize of every grid).
ResizeRows == 2
ResizeCols == 3
\* The terminal of SpecStartup: its width * height does not fit u16.
BigWidth == 400
BigHeight == 164

\* Largest terminal of SpecKeys (one input event after another).
KeyRows == 2
KeyCols == 1

\* Largest terminal of SpecMove (one cursor move after another).
MoveRows == 3
MoveCols == 3

\* Largest terminal of SpecBlinker (a Blinker stamped and stepped twice).
BlinkRows == 5
BlinkCols == 5

\* The run of SpecSplit lasts at most MaxElapsed * 50 ms.
MaxElapsed == 24

\* u16 arithmetic of ratatui's Size (width: u16, height: u16).
U16 == 65536
\* spawn_random_pattern keeps anchors 15 cells from the bottom and right edges.
SpawnMargin == 15

VARIABLES
  grid,          \* State.grid: [data |-> sequence of BOOLEAN, cols |-> Nat]
  cursor,        \* State.cursor: [row |-> Nat, col |-> Nat]
  tick_rate,     \* State.tick_rate: "Slow" | "Normal" | "Fast"
  paused,        \* State.paused
  random,        \* main's `random` flag, passed to State::run
  accumulator,   \* run's local `accumulator`
  delta,         \* run's local `delta` of the frame in progress
  queue,         \* input events the terminal holds, oldest first
  pc,            \* position in run's loop: "events" | "ticks" | "draw"
  status,        \* "running" | "quit" | "panicked"
  fault,         \* the function whose panic ended the run, "" if none
  acc_at_frame,  \* history: accumulator when the frame's events were drained
  acc_at_pause,  \* history: accumulator when paused was last set, -1 if none
  steps,         \* history: calls of update in the frame in progress
  prev_grid,     \* history: the grid before the last recorded operation
  last_event,    \* history: the last recorded input event
  elapsed,       \* history: sum of the frames' deltas, -1 when not recorded
  updates        \* history: calls of update in all, 0 when not recorded

vars == <<grid, cursor, tick_rate, paused, random, accumulator, delta, queue,
          pc, status, fault, acc_at_frame, acc_at_pause, steps, prev_grid,
          last_event, elapsed, updates>>

\* ------------------------------------------------------------- Grid
Min(a, b) == IF a < b THEN a ELSE b

\* Grid::new: vec![false; (height * width).into()], the product in u16.
GridNew(width, height) ==
  [data |-> [i \in 1..((height * width) % U16) |-> FALSE], cols |-> width]

\* Grid::rows divides by self.cols: it panics when cols = 0.
RowsPanics(g) == g.cols = 0

\* Grid::rows, where it does not panic.
Rows(g) == Len(g.data) \div g.cols

\* Grid::cols
Cols(g) == g.cols

\* Index / IndexMut: the flat position row * cols + col (0-based).
Flat(g, row, col) == row * g.cols + col

\* Vec indexing panics when the position is not below the length.
IndexPanics(g, row, col) == Flat(g, row, col) >= Len(g.data)

\* impl Index for Grid
Index(g, row, col) == g.data[Flat(g, row, col) + 1]

\* impl IndexMut for Grid, assigning value
IndexSet(g, row, col, value) ==
  [g EXCEPT !.data = [g.data EXCEPT ![Flat(g, row, col) + 1] = value]]

\* Grid::resize's copy: data[r * cols + c] = self.data[r * self.cols() + c]
ResizeCopyCell(g, data, cols, r, c) ==
  [data EXCEPT ![r * cols + c + 1] = g.data[r * g.cols + c + 1]]

\* Grid::resize's two loops over r in 0..min(self.rows(), rows) and
\* c in 0..min(self.cols(), cols); k counts the pairs (r, c) in loop order.
RECURSIVE ResizeLoop(_, _, _, _, _, _)
ResizeLoop(g, data, cols, nr, nc, k) ==
  IF k >= nr * nc THEN data
  ELSE ResizeLoop(g, ResizeCopyCell(g, data, cols, k \div nc, k % nc),
                  cols, nr, nc, k + 1)

\* The row loop one short: the last common row is not copied.
ResizeSkipsLastRow(g, rows, cols) ==
  [data |-> ResizeLoop(g, [i \in 1..(rows * cols) |-> FALSE], cols,
                       Min(Rows(g), rows) - 1, Min(Cols(g), cols), 0),
   cols |-> cols]

\* Grid::resize, where self.rows() does not panic.
Resize(g, rows, cols) ==
  [data |-> ResizeLoop(g, [i \in 1..(rows * cols) |-> FALSE], cols,
                       Min(Rows(g), rows), Min(Cols(g), cols), 0),
   cols |-> cols]

\* State::clear
Clear(g) == [g EXCEPT !.data = [i \in 1..Len(g.data) |-> FALSE]]

\* ------------------------------------------------------------- Cursor
\* Cursor::new
CursorNew(width, height) == [row |-> height \div 2, col |-> width \div 2]

\* ------------------------------------------------------------- TickRate
TickRates == {"Slow", "Normal", "Fast"}

\* An increase that stops at the fastest rate instead of wrapping.
IncreaseClamped(rate) ==
  CASE rate = "Slow" -> "Normal"
    [] rate = "Normal" -> "Fast"
    [] rate = "Fast" -> "Fast"

\* TickRate::increase
Increase(rate) ==
  CASE rate = "Slow" -> "Normal"
    [] rate = "Normal" -> "Fast"
    [] rate = "Fast" -> "Slow"

\* TickRate::decrease
Decrease(rate) ==
  CASE rate = "Slow" -> "Fast"
    [] rate = "Normal" -> "Slow"
    [] rate = "Fast" -> "Normal"

\* impl From<TickRate> for Duration, in milliseconds
TickDuration(rate) ==
  CASE rate = "Slow" -> 1000
    [] rate = "Normal" -> 200
    [] rate = "Fast" -> 100

\* ------------------------------------------------------------- Pattern
Patterns ==
  {"Glider", "Blinker", "Toad", "Beacon", "Pulsar", "LightweightSpaceship"}

\* Pattern::cells
PatternCells(pattern) ==
  CASE pattern = "Glider" -> <<<<0, 1>>, <<1, 2>>, <<2, 0>>, <<2, 1>>, <<2, 2>>>>
    [] pattern = "Blinker" -> <<<<1, 0>>, <<1, 1>>, <<1, 2>>>>
    [] pattern = "Toad" ->
         <<<<1, 1>>, <<1, 2>>, <<1, 3>>, <<2, 0>>, <<2, 1>>, <<2, 2>>>>
    [] pattern = "Beacon" ->
         <<<<0, 0>>, <<0, 1>>, <<1, 0>>, <<2, 3>>, <<3, 2>>, <<3, 3>>>>
    [] pattern = "Pulsar" ->
         <<<<0, 2>>, <<0, 3>>, <<0, 4>>, <<0, 8>>, <<0, 9>>, <<0, 10>>,
           <<2, 0>>, <<2, 5>>, <<2, 7>>, <<2, 12>>,
           <<3, 0>>, <<3, 5>>, <<3, 7>>, <<3, 12>>,
           <<4, 0>>, <<4, 5>>, <<4, 7>>, <<4, 12>>,
           <<5, 2>>, <<5, 3>>, <<5, 4>>, <<5, 8>>, <<5, 9>>, <<5, 10>>,
           <<7, 2>>, <<7, 3>>, <<7, 4>>, <<7, 8>>, <<7, 9>>, <<7, 10>>,
           <<8, 0>>, <<8, 5>>, <<8, 7>>, <<8, 12>>,
           <<9, 0>>, <<9, 5>>, <<9, 7>>, <<9, 12>>,
           <<10, 0>>, <<10, 5>>, <<10, 7>>, <<10, 12>>,
           <<12, 2>>, <<12, 3>>, <<12, 4>>, <<12, 8>>, <<12, 9>>, <<12, 10>>>>
    [] pattern = "LightweightSpaceship" ->
         <<<<0, 1>>, <<0, 4>>, <<1, 0>>, <<2, 0>>, <<2, 4>>,
           <<3, 0>>, <<3, 1>>, <<3, 2>>, <<3, 3>>>>

\* State::place_pattern's loop body for one offset (dr, dc): is the cell at
\* flat position i (0-based) the one it sets alive.
PlaceCell(g, start_row, start_col, cell, i) ==
  LET r == start_row + cell[1]
      c == start_col + cell[2]
  IN r < Rows(g) /\ c < Cols(g) /\ Flat(g, r, c) = i

\* State::place_pattern (called only where grid.rows() does not panic).  The
\* loop's writes all store `true`, so their order does not matter: a cell is
\* alive afterwards when it was alive or some offset's pass set it.
PlacePattern(g, pattern, start_row, start_col) ==
  LET cells == PatternCells(pattern)
  IN [g EXCEPT !.data =
        [i \in 1..Len(g.data) |->
           \/ g.data[i]
           \/ \E k \in 1..Len(cells) :
                PlaceCell(g, start_row, start_col, cells[k], i - 1)]]

\* ------------------------------------------------------------- update
\* The (dr, dc) pairs of update's two inner loops, (0, 0) skipped.
Offsets ==
  <<<<-1, -1>>, <<-1, 0>>, <<-1, 1>>, <<0, -1>>, <<0, 1>>,
    <<1, -1>>, <<1, 0>>, <<1, 1>>>>

\* rem_euclid with a positive modulus
RemEuclid(a, n) == a % n

\* update's neighbor count of cell (r, c), read from self.grid.
Neighbors(g, r, c) ==
  Cardinality({k \in 1..Len(Offsets) :
    Index(g, RemEuclid(r + Offsets[k][1], Rows(g)),
             RemEuclid(c + Offsets[k][2], Cols(g)))})

\* A rule under which a live cell survives with 3 neighbors only.
RuleSurviveOnThree(alive, neighbors) == neighbors = 3

\* update's match (*alive, neighbors)
Rule(alive, neighbors) ==
  \/ alive /\ neighbors \in 2..3
  \/ ~alive /\ neighbors = 3

\* A single-buffer update: the neighbors are counted in the buffer being
\* written.
UpdateCellInPlace(g, next, r, c) ==
  IndexSet(next, r, c, Rule(Index(next, r, c), Neighbors(next, r, c)))

\* update's loop body for cell (r, c): counts in self.grid, writes next.
UpdateCell(g, next, r, c) ==
  IndexSet(next, r, c, Rule(Index(next, r, c), Neighbors(g, r, c)))

\* update's loops over r in 0..rows and c in 0..cols; k counts the cells.
RECURSIVE UpdateLoop(_, _, _)
UpdateLoop(g, next, k) ==
  IF k >= Rows(g) * Cols(g) THEN next
  ELSE UpdateLoop(g, UpdateCell(g, next, k \div Cols(g), k % Cols(g)), k + 1)

\* State::update evaluates self.grid.rows() first: it panics when cols = 0.
UpdatePanics(g) == RowsPanics(g)

\* State::update, where it does not panic: next = self.grid.clone(), the
\* loops, self.grid = next.
Update(g) == UpdateLoop(g, g, 0)

\* ------------------------------------------------------------- random spawn
\* The anchors (row, col) spawn_random_pattern draws from:
\* gen_range(0..rows.saturating_sub(15)) and gen_range(0..cols.saturating_sub(15)).
SpawnAnchors(g) ==
  (0..(Rows(g) - SpawnMargin - 1)) \X (0..(Cols(g) - SpawnMargin - 1))

\* State::spawn_random_pattern: what one call can do to grid g (rows() does
\* not panic here: update ran before).  gen_range(0..10) != 0 returns at
\* once; gen_range over an empty range panics.
SpawnRandomOutcomes(g) ==
  {[grid |-> g, panic |-> FALSE]} \cup
  IF SpawnAnchors(g) = {}
  THEN {[grid |-> g, panic |-> TRUE]}
  ELSE {[grid |-> PlacePattern(g, p, a[1], a[2]), panic |-> FALSE] :
          p \in Patterns, a \in SpawnAnchors(g)}

\* ------------------------------------------------------------- input events
\* Key presses handle_events tells apart ("Other": any other key).
KeyCodes ==
  {"Left", "Right", "Up", "Down", "p", "]", "[", "Space", "x", "r",
   "CtrlC", "Other"}

KeyEvent(code) == [cols |-> 0, rows |-> 0, code |-> code, kind |-> "Key"]

\* Event::Resize(cols, rows)
ResizeEvent(rows, cols) ==
  [cols |-> cols, rows |-> rows, code |-> "", kind |-> "Resize"]

Events ==
  {KeyEvent(code) : code \in KeyCodes} \cup
  {ResizeEvent(rows, cols) : rows \in 0..MaxRows, cols \in 0..MaxCols}

\* A move to the left that stops at column 0 instead of wrapping.
MoveLeftClamped(c_col, max_cols) == IF c_col = 0 THEN 0 ELSE c_col - 1

\* KeyCode::Left: (*c_col + max_cols - 1) % max_cols
MoveLeft(c_col, max_cols) == (c_col + max_cols - 1) % max_cols
\* KeyCode::Right: (*c_col + 1) % max_cols
MoveRight(c_col, max_cols) == (c_col + 1) % max_cols
\* KeyCode::Up: (*c_row + max_rows - 1) % max_rows
MoveUp(c_row, max_rows) == (c_row + max_rows - 1) % max_rows
\* KeyCode::Down: (*c_row + 1) % max_rows
MoveDown(c_row, max_rows) == (c_row + 1) % max_rows

\* Where a key press other than control-c panics: self.grid.rows() when
\* cols = 0; the remainder by max_rows = 0 (and, before it, 0 + 0 - 1 in
\* usize); the cell of the cursor lying outside the data.
KeyPanics(g, cur, code) ==
  \/ RowsPanics(g)
  \/ code \in {"Up", "Down"} /\ Rows(g) = 0
  \/ code = "Space" /\ IndexPanics(g, cur.row, cur.col)

\* Event::Resize panics in Grid::resize, at self.rows(), when cols = 0.
ResizePanics(g) == RowsPanics(g)

\* control-c taken for an ordinary key.
IsQuitNever(event) == FALSE

\* Does reading the event end handle_events with ControlFlow::Break.
IsQuit(event) == event.kind = "Key" /\ event.code = "CtrlC"

\* A toggle that sets the cell alive instead of negating it.
EventGridToggleSets(g, cur, event, pattern) ==
  CASE event.kind = "Resize" -> Resize(g, event.rows, event.cols)
    [] event.code = "Space" -> IndexSet(g, cur.row, cur.col, TRUE)
    [] event.code = "x" -> Clear(g)
    [] event.code = "r" -> PlacePattern(g, pattern, cur.row, cur.col)
    [] OTHER -> g

\* The grid after the event (pattern: the draw of spawn_pattern_at_cursor).
EventGrid(g, cur, event, pattern) ==
  CASE event.kind = "Resize" -> Resize(g, event.rows, event.cols)
    [] event.code = "Space" ->
         IndexSet(g, cur.row, cur.col, ~Index(g, cur.row, cur.col))
    [] event.code = "x" -> Clear(g)
    [] event.code = "r" -> PlacePattern(g, pattern, cur.row, cur.col)
    [] OTHER -> g

\* The cursor after the event.
EventCursor(g, cur, event) ==
  CASE event.kind = "Resize" -> CursorNew(event.cols, event.rows)
    [] event.code = "Left" -> [cur EXCEPT !.col = MoveLeft(cur.col, Cols(g))]
    [] event.code = "Right" -> [cur EXCEPT !.col = MoveRight(cur.col, Cols(g))]
    [] event.code = "Up" -> [cur EXCEPT !.row = MoveUp(cur.row, Rows(g))]
    [] event.code = "Down" -> [cur EXCEPT !.row = MoveDown(cur.row, Rows(g))]
    [] OTHER -> cur

\* The paused flag after the event.
EventPaused(p, event) ==
  IF event.kind = "Key" /\ event.code = "p" THEN ~p ELSE p

\* The tick rate after the event.
EventTickRate(rate, event) ==
  CASE event.kind = "Key" /\ event.code = "]" -> Increase(rate)
    [] event.kind = "Key" /\ event.code = "[" -> Decrease(rate)
    [] OTHER -> rate

\* The accumulator after the event: handle_events has no access to it.
EventAccumulator(acc, event) == acc

\* history: the accumulator value held since paused was set.
PauseMark(p, acc, mark, event) ==
  IF event.kind = "Key" /\ event.code = "p" /\ ~p THEN acc ELSE mark

\* One iteration of handle_events' loop: poll() was true and read() gave
\* `event`.
HandleEvent(event, pattern) ==
  /\ status = "running"
  /\ pc = "events"
  /\ IF IsQuit(event)
     THEN /\ status' = "quit"
          /\ UNCHANGED <<grid, cursor, tick_rate, paused, accumulator, fault,
                         acc_at_pause>>
     ELSE IF event.kind = "Resize" /\ ResizePanics(grid)
     THEN /\ status' = "panicked"
          /\ fault' = "Grid::resize"
          /\ UNCHANGED <<grid, cursor, tick_rate, paused, accumulator,
                         acc_at_pause>>
     ELSE IF event.kind = "Key" /\ KeyPanics(grid, cursor, event.code)
     THEN /\ status' = "panicked"
          /\ fault' = "State::handle_events"
          /\ UNCHANGED <<grid, cursor, tick_rate, paused, accumulator,
                         acc_at_pause>>
     ELSE /\ grid' = EventGrid(grid, cursor, event, pattern)
          /\ cursor' = EventCursor(grid, cursor, event)
          /\ paused' = EventPaused(paused, event)
          /\ tick_rate' = EventTickRate(tick_rate, event)
          /\ accumulator' = EventAccumulator(accumulator, event)
          /\ acc_at_pause' = PauseMark(paused, accumulator, acc_at_pause, event)
          /\ UNCHANGED <<status, fault>>
  /\ UNCHANGED <<random, delta, pc, acc_at_frame, steps, elapsed, updates>>

\* An event arrives while none is waiting and handle_events reads it.
Poll(event, pattern) ==
  /\ queue = <<>>
  /\ HandleEvent(event, pattern)
  /\ UNCHANGED <<queue, prev_grid, last_event>>

\* Poll, with the event and the grid before it recorded.
PollRecorded(event, pattern) ==
  /\ queue = <<>>
  /\ HandleEvent(event, pattern)
  /\ prev_grid' = grid
  /\ last_event' = event
  /\ UNCHANGED queue

\* An event arrives at the terminal and waits to be read.
Arrive(event) ==
  /\ Len(queue) < MaxQueue
  /\ queue' = Append(queue, event)
  /\ UNCHANGED <<grid, cursor, tick_rate, paused, random, accumulator, delta,
                 pc, status, fault, acc_at_frame, acc_at_pause, steps,
                 prev_grid, last_event, elapsed, updates>>

\* handle_events reads the oldest waiting event.
ReadQueued(pattern) ==
  /\ queue # <<>>
  /\ HandleEvent(Head(queue), pattern)
  /\ queue' = Tail(queue)
  /\ UNCHANGED <<prev_grid, last_event>>

\* ------------------------------------------------------------- run
NoGrid == [data |-> <<>>, cols |-> 0]
NoEvent == [cols |-> 0, rows |-> 0, code |-> "", kind |-> "None"]

\* The clock added to the accumulator whether paused or not.
AccumulateAlways(p, acc, d) == acc + d

\* run: if !self.paused { accumulator += delta; ... }
Accumulate(p, acc, d) == IF ~p THEN acc + d ELSE acc

\* The loop entered whether paused or not.
LoopConditionIgnoringPause(p, acc, tick) == acc >= tick

\* The loop left one tick early: `while accumulator > tick_rate`.
LoopConditionStrict(p, acc, tick) == ~p /\ acc > tick

\* run: is another pass of `while accumulator >= tick_rate` entered (the
\* loop stands inside `if !self.paused`).
LoopCondition(p, acc, tick) == ~p /\ acc >= tick

\* The accumulator emptied after a step, the remainder dropped.
ConsumeAll(acc, tick) == 0

\* run: accumulator -= tick_rate
Consume(acc, tick) == acc - tick

Deltas == {50 * k : k \in 1..MaxDelta}

\* history: the run's clock after a frame of delta d, where it is recorded.
Elapse(e, d) == IF e = -1 THEN -1 ELSE e + d

\* history: the run's count of update calls after one more, where recorded.
Count(e, n) == IF e = -1 THEN n ELSE n + 1

\* poll() is false: handle_events returns Continue; run reads the clock.
BeginFrame(d) ==
  /\ status = "running"
  /\ pc = "events"
  /\ queue = <<>>
  /\ pc' = "ticks"
  /\ delta' = d
  /\ accumulator' = Accumulate(paused, accumulator, d)
  /\ acc_at_frame' = accumulator
  /\ steps' = 0
  /\ prev_grid' = NoGrid
  /\ elapsed' = Elapse(elapsed, d)
  /\ UNCHANGED <<grid, cursor, tick_rate, paused, random, queue, status,
                 fault, acc_at_pause, last_event, updates>>

\* One pass of run's while loop: update, the random spawn, the subtraction.
TickStep ==
  /\ status = "running"
  /\ pc = "ticks"
  /\ LoopCondition(paused, accumulator, TickDuration(tick_rate))
  /\ IF UpdatePanics(grid)
     THEN /\ status' = "panicked"
          /\ fault' = "State::update"
          /\ UNCHANGED <<grid, accumulator, steps, prev_grid, updates>>
     ELSE /\ steps' = steps + 1
          /\ updates' = Count(elapsed, updates)
          /\ prev_grid' = grid
          /\ IF random
             THEN \E o \in SpawnRandomOutcomes(Update(grid)) :
                    /\ grid' = o.grid
                    /\ IF o.panic
                       THEN /\ status' = "panicked"
                            /\ fault' = "State::spawn_random_pattern"
                            /\ UNCHANGED accumulator
                       ELSE /\ accumulator' =
                               Consume(accumulator, TickDuration(tick_rate))
                            /\ UNCHANGED <<status, fault>>
             ELSE /\ grid' = Update(grid)
                  /\ accumulator' = Consume(accumulator, TickDuration(tick_rate))
                  /\ UNCHANGED <<status, fault>>
  /\ UNCHANGED <<cursor, tick_rate, paused, random, delta, queue, pc,
                 acc_at_frame, acc_at_pause, last_event, elapsed>>

\* The loop is over (or was skipped): term.draw renders the frame.
Render ==
  /\ status = "running"
  /\ pc = "ticks"
  /\ ~LoopCondition(paused, accumulator, TickDuration(tick_rate))
  /\ pc' = "draw"
  /\ UNCHANGED <<grid, cursor, tick_rate, paused, random, accumulator, delta,
                 queue, status, fault, acc_at_frame, acc_at_pause, steps,
                 prev_grid, last_event, elapsed, updates>>

\* The sleep to the frame interval; the loop starts over at handle_events.
Sleep ==
  /\ status = "running"
  /\ pc = "draw"
  /\ pc' = "events"
  /\ delta' = 0
  /\ acc_at_frame' = 0
  /\ steps' = 0
  /\ prev_grid' = NoGrid
  /\ acc_at_pause' = IF paused THEN acc_at_pause ELSE -1
  /\ UNCHANGED <<grid, cursor, tick_rate, paused, random, accumulator, queue,
                 status, fault, last_event, elapsed, updates>>

\* ------------------------------------------------------------- startup
\* Does Grid::new's height * width overflow u16 (a panic in a build with
\* overflow checks, a wrapped product without).
NewOverflows(width, height) == height * width >= U16

\* main: State::new(term.size()), `if random { state.paused = false }`, and
\* run's locals; the terminal is width x height.
Startup(width, height, rnd, checked) ==
  /\ grid = GridNew(width, height)
  /\ cursor = CursorNew(width, height)
  /\ tick_rate = "Normal"
  /\ paused = ~rnd
  /\ random = rnd
  /\ accumulator = 0
  /\ delta = 0
  /\ queue = <<>>
  /\ pc = "events"
  /\ status = IF NewOverflows(width, height) /\ checked
              THEN "panicked" ELSE "running"
  /\ fault = IF NewOverflows(width, height) /\ checked
             THEN "Grid::new" ELSE ""
  /\ acc_at_frame = 0
  /\ acc_at_pause = IF rnd THEN -1 ELSE 0
  /\ steps = 0
  /\ prev_grid = NoGrid
  /\ last_event = NoEvent

\* history: the run's clock and count of updates are not recorded.
Untimed == elapsed = -1 /\ updates = 0

\* history: the run's clock and count of updates are recorded from here on.
Timed == elapsed = 0 /\ updates = 0

\* Startup on a terminal of at least one row and one column (sizes this
\* small do not overflow: `checked` makes no difference).
Init ==
  /\ \E width \in 1..MaxCols, height \in 1..MaxRows, rnd \in BOOLEAN :
       Startup(width, height, rnd, FALSE)
  /\ Untimed

\* The draws of rng.gen_range(0..6) that reading the event can make.
PatternDraws(event) ==
  IF event.kind = "Key" /\ event.code = "r" THEN Patterns ELSE {"Glider"}

Next ==
  \/ \E event \in Events : \E pattern \in PatternDraws(event) :
       Poll(event, pattern)
  \/ \E d \in Deltas : BeginFrame(d)
  \/ TickStep
  \/ Render
  \/ Sleep

Spec == Init /\ [][Next]_vars

\* ------------------------------------------------------------- SpecUpdate
\* Every grid of rows x cols cells.
Grids(rows, cols) ==
  {[data |-> d, cols |-> cols] : d \in [1..(rows * cols) -> BOOLEAN]}

\* run is at handle_events with grid g, cursor cur and paused flag p, no time
\* accumulated: a state that toggles, moves and pause events lead to from
\* startup on a terminal of g's size.
Loaded(g, cur, p) ==
  /\ grid = g
  /\ cursor = cur
  /\ tick_rate = "Normal"
  /\ paused = p
  /\ random = FALSE
  /\ accumulator = 0
  /\ delta = 0
  /\ queue = <<>>
  /\ pc = "events"
  /\ status = "running"
  /\ fault = ""
  /\ acc_at_frame = 0
  /\ acc_at_pause = IF p THEN 0 ELSE -1
  /\ steps = 0
  /\ prev_grid = NoGrid
  /\ last_event = NoEvent

InitUpdate ==
  /\ \E rows \in 1..StepRows, cols \in 1..StepCols :
       \E g \in Grids(rows, cols) : Loaded(g, CursorNew(cols, rows), FALSE)
  /\ Untimed

\* Frames of exactly one tick each, without input.
NextUpdate ==
  \/ BeginFrame(TickDuration(tick_rate))
  \/ TickStep
  \/ Render
  \/ Sleep

SpecUpdate == InitUpdate /\ [][NextUpdate]_vars

\* ------------------------------------------------------------- SpecResize
\* One resize after another, each recorded, from every grid.
InitResize ==
  /\ \E rows \in 1..ResizeRows, cols \in 1..ResizeCols :
       \E g \in Grids(rows, cols) : Loaded(g, CursorNew(cols, rows), TRUE)
  /\ Untimed

NextResize ==
  \E rows \in 1..ResizeRows, cols \in 1..ResizeCols :
    PollRecorded(ResizeEvent(rows, cols), "Glider")

SpecResize == InitResize /\ [][NextResize]_vars

\* ------------------------------------------------------------- SpecQueue
\* The keys that arrive in SpecQueue: toggle, clear, move, pause, quit.
QueueKeys == {"Space", "x", "Right", "p", "CtrlC"}

\* Events wait in the terminal's queue until handle_events reads them; each
\* frame lasts one tick.
NextQueue ==
  \/ \E code \in QueueKeys : Arrive(KeyEvent(code))
  \/ ReadQueued("Glider")
  \/ BeginFrame(TickDuration(tick_rate))
  \/ TickStep
  \/ Render
  \/ Sleep

SpecQueue == Init /\ [][NextQueue]_vars

\* ------------------------------------------------------------- SpecStartup
\* Startup on a terminal whose width * height overflows u16, in a build with
\* overflow checks and in one without.
InitStartup ==
  /\ \E rnd \in BOOLEAN, checked \in BOOLEAN :
       Startup(BigWidth, BigHeight, rnd, checked)
  /\ Untimed

\* Every key but the horizontal moves, each recorded; no resize.
NextStartup ==
  \/ \E code \in KeyCodes \ {"Left", "Right"} :
       \E pattern \in PatternDraws(KeyEvent(code)) :
         PollRecorded(KeyEvent(code), pattern)
  \/ \E d \in Deltas : BeginFrame(d)
  \/ TickStep
  \/ Render
  \/ Sleep

SpecStartup == InitStartup /\ [][NextStartup]_vars

\* ------------------------------------------------------------- SpecKeys
\* The events of SpecKeys: every key press and every resize to at most
\* KeyRows x KeyCols, zero rows and zero columns included.
KeysEvents ==
  {KeyEvent(code) : code \in KeyCodes} \cup
  {ResizeEvent(rows, cols) : rows \in 0..KeyRows, cols \in 0..KeyCols}

\* Startup (paused) on a terminal of at most KeyRows x KeyCols.
InitKeys ==
  /\ \E width \in 1..KeyCols, height \in 1..KeyRows :
       Startup(width, height, FALSE, FALSE)
  /\ Untimed

\* One input event after another, each recorded.
NextKeys ==
  \E event \in KeysEvents : \E pattern \in PatternDraws(event) :
    PollRecorded(event, pattern)

SpecKeys == InitKeys /\ [][NextKeys]_vars

\* ------------------------------------------------------------- SpecMove
\* Startup (paused) on a terminal of at most MoveRows x MoveCols, then one
\* arrow key after another, each recorded.
InitMove ==
  /\ \E width \in 1..MoveCols, height \in 1..MoveRows :
       Startup(width, height, FALSE, FALSE)
  /\ Untimed

NextMove ==
  \E code \in {"Left", "Right", "Up", "Down"} :
    PollRecorded(KeyEvent(code), "Glider")

SpecMove == InitMove /\ [][NextMove]_vars

\* ------------------------------------------------------------- SpecBlinker
\* Startup (paused, all cells dead) on a terminal of at least 3 x 3, the
\* run's count of updates recorded.
InitBlinker ==
  /\ \E width \in 3..BlinkCols, height \in 3..BlinkRows :
       Startup(width, height, FALSE, FALSE)
  /\ Timed

\* The cursor is moved; 'r' stamps once, drawing the Blinker; 'p' starts the
\* simulation; two frames of one tick each follow.
NextBlinker ==
  \/ \E code \in {"Left", "Right", "Up", "Down"} :
       last_event = NoEvent /\ Poll(KeyEvent(code), "Glider")
  \/ last_event = NoEvent /\ PollRecorded(KeyEvent("r"), "Blinker")
  \/ last_event # NoEvent /\ paused /\ Poll(KeyEvent("p"), "Glider")
  \/ ~paused /\ updates < 2 /\ BeginFrame(TickDuration(tick_rate))
  \/ TickStep
  \/ Render
  \/ Sleep

SpecBlinker == InitBlinker /\ [][NextBlinker]_vars

\* ------------------------------------------------------------- SpecClear
\* The events of SpecClear: clear, toggle, pause, a faster tick, and every
\* resize to at most MaxRows x MaxCols, zero rows and zero columns included.
ClearEvents ==
  {KeyEvent(code) : code \in {"x", "Space", "p", "]"}} \cup
  {ResizeEvent(rows, cols) : rows \in 0..MaxRows, cols \in 0..MaxCols}

\* Input events, each recorded, between the frames of the run.
NextClear ==
  \/ \E event \in ClearEvents : PollRecorded(event, "Glider")
  \/ \E d \in Deltas : BeginFrame(d)
  \/ TickStep
  \/ Render
  \/ Sleep

SpecClear == Init /\ [][NextClear]_vars

\* ------------------------------------------------------------- SpecSplit
\* The simulation runs, not paused, from an empty accumulator, the run's
\* clock and count of updates recorded.
InitSplit ==
  /\ \E g \in Grids(MaxRows, MaxCols) :
       Loaded(g, CursorNew(MaxCols, MaxRows), FALSE)
  /\ Timed

\* The tick rate is chosen before the first frame and held from then on; the
\* frames split the elapsed time in every way the deltas allow.
NextSplit ==
  \/ \E code \in {"]", "["} : elapsed = 0 /\ Poll(KeyEvent(code), "Glider")
  \/ \E d \in Deltas : elapsed + d <= 50 * MaxElapsed /\ BeginFrame(d)
  \/ TickStep
  \/ Render
  \/ Sleep

SpecSplit == InitSplit /\ [][NextSplit]_vars

\* ------------------------------------------------------------- claims
\* Conway's rule on the torus, stated on the grid before the step: the live
\* cells among the 8 offsets around (r, c), each taken modulo the dimensions.
LifeCount(g, r, c) ==
  Cardinality({o \in ({-1, 0, 1} \X {-1, 0, 1}) \ {<<0, 0>>} :
    g.data[((r + o[1]) % Rows(g)) * g.cols + ((c + o[2]) % g.cols) + 1]})

LifeAlive(g, r, c) ==
  LET was == g.data[r * g.cols + c + 1]
      n == LifeCount(g, r, c)
  IN (was /\ n \in {2, 3}) \/ (~was /\ n = 3)

\* C1: one call of update on a grid with rows >= 1 and cols >= 1 keeps the
\* dimensions and makes cell (r, c) alive exactly when, in the grid before the
\* call, it was alive with 2 or 3 live neighbors or dead with exactly 3, the
\* neighbors counted over the 8 wrapped offsets in the grid before the call.
C1_UpdateIsLifeStep ==
  (steps >= 1 /\ prev_grid.cols >= 1 /\ Len(prev_grid.data) >= 1) =>
    /\ grid.cols = prev_grid.cols
    /\ Len(grid.data) = Len(prev_grid.data)
    /\ \A r \in 0..(Rows(prev_grid) - 1), c \in 0..(Cols(prev_grid) - 1) :
         grid.data[r * grid.cols + c + 1] = LifeAlive(prev_grid, r, c)

\* C1 witness: a step on a 3 x 3 grid in which a cell was born and a cell
\* survived (on the 3 x 3 torus every other cell is a neighbor).
C1_Witness ==
  /\ steps = 1
  /\ Len(prev_grid.data) = 9 /\ prev_grid.cols = 3
  /\ \E j, k \in 1..9 :
       /\ ~prev_grid.data[j] /\ grid.data[j]
       /\ prev_grid.data[k] /\ grid.data[k]

\* C2: in every state of the running program the cursor is inside the grid:
\* grid.rows() can be evaluated, cursor.row < grid.rows() and
\* cursor.col < grid.cols().
C2_CursorInBounds ==
  status = "running" =>
    /\ ~RowsPanics(grid)
    /\ cursor.row < Rows(grid)
    /\ cursor.col < Cols(grid)

\* C3: the length of the grid's data is rows() * cols(), and cols() > 0
\* whenever the data is not empty.  (With cols = 0 and no data the product is
\* taken to be 0, though rows() itself cannot be evaluated.)
C3_LengthIsRowsTimesCols ==
  status = "running" =>
    /\ Len(grid.data) > 0 => grid.cols > 0
    /\ grid.cols > 0 => Len(grid.data) = Rows(grid) * Cols(grid)

\* C4: a step of a frame taken while paused (reading the clock, the tick loop,
\* the draw, the sleep: anything but the reading of an input event) leaves
\* the grid as it is, calls update zero times and cannot fail in the random
\* spawn.
C4_PausedFramesKeepGrid ==
  [][(paused /\ (pc # "events" \/ pc' # "events")) =>
       (grid' = grid /\ steps' = 0 /\ status' = status)]_vars

\* C4 witness: a paused frame in random mode with time elapsed, a whole tick
\* in the accumulator and a live cell on the grid.
C4_Witness ==
  /\ paused /\ random /\ pc = "draw" /\ status = "running"
  /\ delta > 0
  /\ accumulator >= TickDuration(tick_rate)
  /\ \E i \in 1..Len(grid.data) : grid.data[i]

\* C5: a frame processed while paused leaves the accumulator unchanged and
\* calls update zero times; a pause event does not reset the accumulator; and
\* the first frame after pause is switched off again adds its delta to the
\* value held when pause was switched on (every tick consumed in that frame
\* is taken from that sum).
C5_PauseHoldsAccumulator ==
  status = "running" =>
    /\ (paused /\ pc # "events") =>
         (steps = 0 /\ accumulator = acc_at_frame)
    /\ (acc_at_pause # -1 /\ (paused \/ pc = "events")) =>
         accumulator = acc_at_pause
    /\ (acc_at_pause # -1 /\ ~paused /\ pc # "events") =>
         accumulator + steps * TickDuration(tick_rate) = acc_at_pause + delta

\* C5 witness: time was accumulated, pause was switched on and off again, and
\* the next frame has added its delta to the value held since and stepped.
C5_Witness ==
  /\ status = "running" /\ ~paused /\ pc = "draw"
  /\ acc_at_pause > 0
  /\ delta > 0
  /\ steps >= 1
  /\ accumulator + steps * TickDuration(tick_rate) = acc_at_pause + delta

\* C6: in a frame processed while not paused (and not cut short by a panic),
\* update has been called
\* floor((a + delta) / T) times when the loop is left, and the accumulator is
\* then (a + delta) mod T < T, for a the accumulator before the frame and T
\* the duration of the tick rate after the frame's events; during the loop
\* accumulator + steps * T = a + delta.
C6_StepsPerFrame ==
  (status = "running" /\ ~paused) =>
    LET T == TickDuration(tick_rate)
        total == acc_at_frame + delta
    IN /\ pc = "ticks" => accumulator + steps * T = total
       /\ pc = "draw" =>
            /\ steps = total \div T
            /\ accumulator = total % T
            /\ accumulator < T

\* C6 witness: a frame that called update several times and left a remainder.
C6_Witness ==
  /\ status = "running" /\ ~paused /\ pc = "draw"
  /\ steps >= 2
  /\ acc_at_frame > 0
  /\ accumulator > 0

\* C7: handle_events consumes the waiting events oldest first and applies
\* each one as it is read; reading control-c ends the run at once, and from
\* then on nothing is read, stepped or drawn: the program's state and
\* position stay as they are and the events still waiting are never consumed.
C7_QuitEndsLoop ==
  [][/\ Len(queue') < Len(queue) =>
          /\ queue' = Tail(queue)
          /\ Head(queue).code = "CtrlC" =>
               /\ status' = "quit"
               /\ UNCHANGED <<grid, cursor, tick_rate, paused, accumulator>>
          /\ (Head(queue).code # "CtrlC" /\ status' = "running") =>
               /\ grid' = EventGrid(grid, cursor, Head(queue), "Glider")
               /\ cursor' = EventCursor(grid, cursor, Head(queue))
               /\ paused' = EventPaused(paused, Head(queue))
     /\ status = "quit" =>
          /\ UNCHANGED <<grid, cursor, tick_rate, paused, accumulator, delta,
                         pc, status, steps>>
          /\ Len(queue') >= Len(queue)]_vars

\* C7 witness: control-c has been read while the simulation was running, and
\* events that arrived after it are still waiting.
C7_Witness ==
  /\ status = "quit"
  /\ ~paused
  /\ Len(queue) = MaxQueue

\* C8: a simulation step on a grid with zero rows or zero columns does not
\* fail, and leaves the empty grid as it was.
C8_StepOnEmptyGrid ==
  /\ fault # "State::update"
  /\ (steps >= 1 /\ Len(prev_grid.data) = 0) => grid = prev_grid

\* C9: no resize event, whatever its rows and cols, fails, and no input event
\* read afterwards fails.
C9_ResizeNeverFails ==
  fault \notin {"Grid::resize", "State::handle_events"}

\* C10: after a resize from R x C to R' x C' (all >= 1) the grid has R' rows
\* and C' columns, each cell (r, c) with r < min(R, R') and c < min(C, C') has
\* the value the old grid had at (r, c), and every other cell is dead.
C10_ResizeKeepsOverlap ==
  (status = "running" /\ last_event.kind = "Resize"
     /\ last_event.rows >= 1 /\ last_event.cols >= 1
     /\ prev_grid.cols >= 1 /\ Len(prev_grid.data) >= 1) =>
    /\ grid.cols = last_event.cols
    /\ Len(grid.data) = last_event.rows * last_event.cols
    /\ \A r \in 0..(last_event.rows - 1), c \in 0..(last_event.cols - 1) :
         grid.data[r * last_event.cols + c + 1] =
           IF r < Rows(prev_grid) /\ c < prev_grid.cols
           THEN prev_grid.data[r * prev_grid.cols + c + 1]
           ELSE FALSE

\* C10 witness: a 1 x 3 grid with its outer cells alive resized to 2 x 2: one
\* live cell is kept, one is cut off, and the new row is dead.
C10_Witness ==
  /\ status = "running"
  /\ last_event = ResizeEvent(2, 2)
  /\ prev_grid = [data |-> <<TRUE, FALSE, TRUE>>, cols |-> 3]
  /\ grid = [data |-> <<TRUE, FALSE, FALSE, FALSE>>, cols |-> 2]

\* The step reads the key press `code` (SpecKeys records every event read).
Reads(code) ==
  /\ status = "running"
  /\ pc = "events" /\ pc' = "events"
  /\ last_event' = KeyEvent(code)

\* The offsets of a pattern, as a set.
OffsetsOf(pattern) ==
  {PatternCells(pattern)[k] : k \in 1..Len(PatternCells(pattern))}

\* C11: stamping one of the six patterns at the cursor, on any grid, does not
\* fail and keeps the grid's dimensions; afterwards cell (r, c) is alive
\* exactly when it was alive before or (r - row, c - col) is an offset of the
\* pattern, for r < rows and c < cols: offsets that land outside are dropped,
\* not wrapped.
C11_StampInBounds ==
  [][Reads("r") =>
       /\ status' = "running"
       /\ grid'.cols = grid.cols
       /\ Len(grid'.data) = Len(grid.data)
       /\ grid.cols > 0 =>
            \E pattern \in Patterns :
              \A r \in 0..(Rows(grid) - 1), c \in 0..(grid.cols - 1) :
                grid'.data[r * grid.cols + c + 1] =
                  (\/ grid.data[r * grid.cols + c + 1]
                   \/ <<r - cursor.row, c - cursor.col>> \in OffsetsOf(pattern))
     ]_vars

\* C12: the random spawn attempted after a simulation step never fails,
\* whatever the grid's dimensions, and every anchor (row, col) it can choose
\* has row < grid.rows() and col < grid.cols().
C12_RandomSpawnNeverFails ==
  /\ fault # "State::spawn_random_pattern"
  /\ (status = "running" /\ grid.cols > 0) =>
       \A a \in SpawnAnchors(grid) : a[1] < Rows(grid) /\ a[2] < Cols(grid)

\* C13: startup on a terminal of BigWidth x BigHeight (each a 16-bit value,
\* their product above 65535) does not fail, and until the first input event
\* is read the grid has cols() = BigWidth, rows() = BigHeight and exactly
\* BigWidth * BigHeight cells, all of them dead when nothing is spawned.
C13_StartupGridSize ==
  /\ fault # "Grid::new"
  /\ (status = "running" /\ last_event = NoEvent) =>
       /\ Cols(grid) = BigWidth
       /\ Rows(grid) = BigHeight
       /\ Len(grid.data) = BigWidth * BigHeight
       /\ ~random => \A i \in 1..Len(grid.data) : ~grid.data[i]

\* C14: from the current tick rate, increase goes Slow to Normal, Normal to
\* Fast and Fast to Slow; decrease undoes increase and increase undoes
\* decrease; three increases, and three decreases, give the rate back; and
\* the step durations are Slow 1000 ms, Normal 200 ms, Fast 100 ms.
C14_TickRateCycle ==
  /\ tick_rate \in {"Slow", "Normal", "Fast"}
  /\ tick_rate = "Slow" => Increase(tick_rate) = "Normal"
  /\ tick_rate = "Normal" => Increase(tick_rate) = "Fast"
  /\ tick_rate = "Fast" => Increase(tick_rate) = "Slow"
  /\ Decrease(Increase(tick_rate)) = tick_rate
  /\ Increase(Decrease(tick_rate)) = tick_rate
  /\ Increase(Increase(Increase(tick_rate))) = tick_rate
  /\ Decrease(Decrease(Decrease(tick_rate))) = tick_rate
  /\ tick_rate = "Slow" => TickDuration(tick_rate) = 1000
  /\ tick_rate = "Normal" => TickDuration(tick_rate) = 200
  /\ tick_rate = "Fast" => TickDuration(tick_rate) = 100

\* C14 witness: the rate has been cycled from Normal to Slow, and a frame has
\* run a step after a whole Slow tick.
C14_Witness ==
  /\ status = "running"
  /\ tick_rate = "Slow"
  /\ pc = "draw"
  /\ steps >= 1

\* C15: on a grid of N >= 1 columns and M >= 1 rows with the cursor inside,
\* Left sets col to (col + N - 1) mod N and Right to (col + 1) mod N, Up and
\* Down do the same to row modulo M; each move leaves the other coordinate and
\* the grid as they are; and the opposite move leads back.
C15_CursorWraps ==
  [][\A code \in {"Left", "Right", "Up", "Down"} :
       (/\ Reads(code)
        /\ grid.cols >= 1 /\ Len(grid.data) >= grid.cols
        /\ cursor.col < grid.cols
        /\ cursor.row < Len(grid.data) \div grid.cols) =>
         LET N == grid.cols
             M == Len(grid.data) \div grid.cols
         IN /\ status' = "running"
            /\ grid' = grid
            /\ code = "Left" =>
                 /\ cursor'.col = (cursor.col + N - 1) % N
                 /\ (cursor'.col + 1) % N = cursor.col
                 /\ cursor'.row = cursor.row
            /\ code = "Right" =>
                 /\ cursor'.col = (cursor.col + 1) % N
                 /\ (cursor'.col + N - 1) % N = cursor.col
                 /\ cursor'.row = cursor.row
            /\ code = "Up" =>
                 /\ cursor'.row = (cursor.row + M - 1) % M
                 /\ (cursor'.row + 1) % M = cursor.row
                 /\ cursor'.col = cursor.col
            /\ code = "Down" =>
                 /\ cursor'.row = (cursor.row + 1) % M
                 /\ (cursor'.row + M - 1) % M = cursor.row
                 /\ cursor'.col = cursor.col
     ]_vars

\* C15 witness: on a 3 x 3 grid Left has just taken the cursor from column 0
\* to column 2, in the bottom row (reached by Down, or by Up through the top).
C15_Witness ==
  /\ status = "running"
  /\ grid.cols = 3 /\ Len(grid.data) = 9
  /\ last_event = KeyEvent("Left")
  /\ cursor = [row |-> 2, col |-> 2]

\* The grid of rows x cols cells whose live cells are those of the set `live`.
GridOf(rows, cols, live) ==
  [data |-> [i \in 1..(rows * cols) |->
               <<(i - 1) \div cols, (i - 1) % cols>> \in live],
   cols |-> cols]

\* The Blinker stamped at anchor (row, col): three cells in row `row + 1`.
BlinkerRow(row, col) ==
  {<<row + 1, col>>, <<row + 1, col + 1>>, <<row + 1, col + 2>>}

\* Three cells in a column through the same centre (row + 1, col + 1), the
\* rows taken modulo the grid's rows.
BlinkerColumn(row, col, rows) ==
  {<<row, col + 1>>, <<row + 1, col + 1>>, <<(row + 2) % rows, col + 1>>}

\* The Blinker stamped at the cursor on the all-dead grid lies within the
\* grid, and the count of updates since says which phase the grid is in.
BlinkerPhases ==
  LET rows == Len(grid.data) \div grid.cols
      row == cursor.row
      col == cursor.col
  IN /\ updates = 0 =>
          grid = GridOf(rows, grid.cols, BlinkerRow(row, col))
     /\ updates = 1 =>
          /\ grid = GridOf(rows, grid.cols, BlinkerColumn(row, col, rows))
          /\ grid # GridOf(rows, grid.cols, BlinkerRow(row, col))
     /\ updates = 2 =>
          grid = GridOf(rows, grid.cols, BlinkerRow(row, col))

BlinkerStamped ==
  /\ status = "running"
  /\ last_event = KeyEvent("r")
  /\ cursor.row + 1 < Len(grid.data) \div grid.cols
  /\ cursor.col + 2 < grid.cols

\* C16 as stated: for every all-dead grid and anchor such that the stamped
\* Blinker lies within the grid, the grid after two steps is the grid right
\* after stamping, and the grid after one step is the column through the
\* same centre.
C16_BlinkerAnyGrid == BlinkerStamped => BlinkerPhases

\* C16, amended: the same on grids of at least 4 rows and 4 columns.
C16_BlinkerPeriodTwo ==
  (BlinkerStamped /\ Len(grid.data) \div grid.cols >= 4 /\ grid.cols >= 4) =>
    BlinkerPhases

\* C16 witness: on a 4 x 4 grid the Blinker stamped in the last row (anchor
\* row 2) has been stepped twice and is back.
C16_Witness ==
  /\ BlinkerStamped
  /\ grid.cols = 4 /\ Len(grid.data) = 16
  /\ cursor.row = 2
  /\ updates = 2
  /\ grid = GridOf(4, 4, BlinkerRow(cursor.row, cursor.col))

\* C17: a cell is never counted as its own neighbor: one step on a grid of
\* rows >= 1 and cols >= 1 with exactly one live cell yields the all-dead grid.
C17_LoneCellDies ==
  (/\ status = "running"
   /\ steps >= 1
   /\ prev_grid.cols >= 1 /\ Len(prev_grid.data) >= 1
   /\ Cardinality({i \in 1..Len(prev_grid.data) : prev_grid.data[i]}) = 1) =>
    \A i \in 1..Len(grid.data) : ~grid.data[i]

\* C18: a toggle with the cursor inside the grid negates the cell at
\* (cursor.row, cursor.col) and leaves every other cell, the grid's
\* dimensions, the cursor, the paused flag and the tick rate as they are; a
\* second toggle right after the first gives back the grid before the first.
C18_ToggleNegatesCell ==
  [][(/\ Reads("Space")
      /\ grid.cols >= 1
      /\ cursor.col < grid.cols
      /\ cursor.row < Len(grid.data) \div grid.cols) =>
       LET at == cursor.row * grid.cols + cursor.col + 1
       IN /\ status' = "running"
          /\ grid'.cols = grid.cols
          /\ Len(grid'.data) = Len(grid.data)
          /\ \A i \in 1..Len(grid.data) :
               grid'.data[i] = IF i = at THEN ~grid.data[i] ELSE grid.data[i]
          /\ cursor' = cursor
          /\ paused' = paused
          /\ tick_rate' = tick_rate
          /\ last_event = KeyEvent("Space") => grid' = prev_grid
     ]_vars

\* C18 witness: a toggle, while the simulation is not paused and the tick rate
\* is not the initial one, has killed the live cell under the cursor and left
\* the other cell, a live one, alone.
C18_Witness ==
  /\ status = "running"
  /\ last_event = KeyEvent("Space")
  /\ ~paused /\ tick_rate = "Fast"
  /\ grid.cols = 1 /\ Len(grid.data) = 2
  /\ cursor = [row |-> 1, col |-> 0]
  /\ prev_grid.data = <<TRUE, TRUE>>
  /\ grid.data = <<TRUE, FALSE>>

\* C19: a clear event, in any state the program can be in, does not fail and
\* makes every cell dead, and leaves the grid's rows and cols, the cursor, the
\* paused flag, the tick rate and the time accumulator as they are.
C19_ClearKeepsTheRest ==
  [][Reads("x") =>
       /\ status' = "running"
       /\ \A i \in 1..Len(grid'.data) : ~grid'.data[i]
       /\ grid'.cols = grid.cols
       /\ Len(grid'.data) = Len(grid.data)
       /\ cursor' = cursor
       /\ paused' = paused
       /\ tick_rate' = tick_rate
       /\ accumulator' = accumulator
     ]_vars

\* C20: with the simulation never paused and the tick rate held at duration T
\* from an empty accumulator, after any sequence of frames with deltas
\* d1..dn update has been called floor((d1 + ... + dn) / T) times in all;
\* inside a frame's loop the calls so far and the accumulator add up to the
\* elapsed time.
C20_RateIndependentOfFrames ==
  (status = "running" /\ ~paused /\ elapsed >= 0) =>
    LET T == TickDuration(tick_rate)
    IN /\ updates * T + accumulator = elapsed
       /\ pc \in {"draw", "events"} => updates = elapsed \div T

\* C20 witness: at the Slow rate a step has run though every frame was
\* shorter than a tick, and a remainder is carried on.
C20_Witness ==
  /\ status = "running" /\ ~paused
  /\ tick_rate = "Slow"
  /\ pc = "draw"
  /\ updates = 1
  /\ accumulator > 0
  /\ elapsed = 50 * MaxElapsed

====
